---- MODULE Spec2Model ----
(***************************************************************************)
(* A model of the terminal task tracker of src/src/main.rs: the App        *)
(* struct, its constructor (load), its Drop (save), the run loop           *)
(* (draw, read one event, handle it) and the key handler.                  *)
(*                                                                         *)
(* Text is a sequence of one-character strings.  A usize is an integer;    *)
(* a value v < 0 stands for 2^64 + v (the result of a wrapping             *)
(* subtraction below zero), compared as unsigned by UGe.                   *)
(***************************************************************************)
EXTENDS Integers, Sequences, FiniteSets

VARIABLES
    pc,                 \* position of the process: boot, draw, read, stopping, terminated, aborted
    file,               \* the persisted file "tasks.json" (outside the process)
    tasks,              \* App.tasks
    exit,               \* App.exit
    state,              \* App.state: "Home" or "New"
    title_input,        \* App.title_input: the text of its only line
    date_input,         \* App.date_input: the text of its only line
    description_input,  \* App.description_input: the text of its only line
    date_style,         \* the style is_number last gave date_input: untouched, valid, invalid
    show_description,   \* App.show_description
    focus,              \* App.focus
    table_state,        \* App.table_state.selected(): <<>> is None, <<i>> is Some(i)
    overflow_checks,    \* the build's overflow checks: unobserved until the first overflow
    outcome,            \* how the run loop ended: running, quit, io_error, panic
    writes,             \* number of std::fs::write calls of this process
    runs,               \* number of process starts so far
    events,             \* number of input events read so far
    clock,              \* chrono::Local::now(), in ticks
    last_event          \* the event handled last, and the view it was handled in

vars == <<pc, file, tasks, exit, state, title_input, date_input, description_input,
          date_style, show_description, focus, table_state, overflow_checks,
          outcome, writes, runs, events, clock, last_event>>

(***************************************************************************)
(* Bounds of the model.                                                    *)
(***************************************************************************)
MaxTasks == 3
MaxText == 1
MaxDigits == 2
MaxSelected == 2
MaxRuns == 2
MaxEvents == 7

\* The characters the user types into the form.
Chars == {"q", "1", "-"}

I32Max == 2147483647
I32Min == (-2147483647) - 1
SecsPerHour == 3600
NanosPerSec == 1000000000

(***************************************************************************)
(* str::parse::<i32>() and str::parse::<u64>()                             *)
(***************************************************************************)
Digits == {"0", "1", "2", "3", "4", "5", "6", "7", "8", "9"}

DigitVal(c) ==
    CASE c = "0" -> 0 [] c = "1" -> 1 [] c = "2" -> 2 [] c = "3" -> 3
      [] c = "4" -> 4 [] c = "5" -> 5 [] c = "6" -> 6 [] c = "7" -> 7
      [] c = "8" -> 8 [] c = "9" -> 9

ParseErr == [ok |-> FALSE, val |-> 0]

\* Accumulates the digits upwards, failing on a non-digit or above limit.
RECURSIVE AccumPos(_, _, _)
AccumPos(ds, acc, limit) ==
    IF ds = <<>> THEN [ok |-> TRUE, val |-> acc]
    ELSE IF Head(ds) \notin Digits THEN ParseErr
    ELSE IF acc > (limit - DigitVal(Head(ds))) \div 10 THEN ParseErr
    ELSE AccumPos(Tail(ds), acc * 10 + DigitVal(Head(ds)), limit)

\* Accumulates the digits downwards, failing on a non-digit or below limit.
RECURSIVE AccumNeg(_, _, _)
AccumNeg(ds, acc, limit) ==
    IF ds = <<>> THEN [ok |-> TRUE, val |-> acc]
    ELSE IF Head(ds) \notin Digits THEN ParseErr
    ELSE IF acc < (limit + DigitVal(Head(ds)) + 9) \div 10 THEN ParseErr
    ELSE AccumNeg(Tail(ds), acc * 10 - DigitVal(Head(ds)), limit)

ParseI32(s) ==
    IF s = <<>> THEN ParseErr
    ELSE IF Head(s) \in {"+", "-"} /\ Len(s) = 1 THEN ParseErr
    ELSE IF Head(s) = "+" THEN AccumPos(Tail(s), 0, I32Max)
    ELSE IF Head(s) = "-" THEN AccumNeg(Tail(s), 0, I32Min)
    ELSE AccumPos(s, 0, I32Max)

\* An unsigned type takes no minus sign.  The only caller passes a string
\* that parsed as an i32, so the u64 range is never exceeded; the limit
\* written here is the largest magnitude such a string can have.
ParseU64(s) ==
    IF s = <<>> THEN ParseErr
    ELSE IF Head(s) \in {"+", "-"} /\ Len(s) = 1 THEN ParseErr
    ELSE IF Head(s) = "+" THEN AccumPos(Tail(s), 0, I32Max)
    ELSE AccumPos(s, 0, I32Max)

(***************************************************************************)
(* The Status enum and the status cycle of the List view's Enter.          *)
(***************************************************************************)
Status == {"NotStarted", "InProgress", "Complete", "Overdue"}

\* A cycle that leaves Overdue out.
ToggleStatusSkipsOverdue(s) ==
    CASE s = "NotStarted" -> "InProgress"
      [] s = "InProgress" -> "Complete"
      [] s = "Complete" -> "NotStarted"
      [] s = "Overdue" -> "NotStarted"

ToggleStatus(s) ==
    CASE s = "NotStarted" -> "InProgress"
      [] s = "InProgress" -> "Complete"
      [] s = "Complete" -> "Overdue"
      [] s = "Overdue" -> "NotStarted"

(***************************************************************************)
(* serde_json: the serialized form of Vec<Task> and its parse.             *)
(***************************************************************************)
\* An escaping that forgets the backslash.
RECURSIVE EscapeJsonQuotesOnly(_)
EscapeJsonQuotesOnly(s) ==
    IF s = <<>> THEN <<>>
    ELSE IF Head(s) = "\"" THEN <<"\\", Head(s)>> \o EscapeJsonQuotesOnly(Tail(s))
    ELSE <<Head(s)>> \o EscapeJsonQuotesOnly(Tail(s))

\* A JSON string literal's body: quote and backslash are escaped.
RECURSIVE EscapeJson(_)
EscapeJson(s) ==
    IF s = <<>> THEN <<>>
    ELSE IF Head(s) \in {"\"", "\\"} THEN <<"\\", Head(s)>> \o EscapeJson(Tail(s))
    ELSE <<Head(s)>> \o EscapeJson(Tail(s))

\* The text of a JSON string literal's body, or an error when the body holds
\* a bare quote, an unknown escape or a dangling backslash.
RECURSIVE UnescapeJson(_)
UnescapeJson(s) ==
    IF s = <<>> THEN [ok |-> TRUE, val |-> <<>>]
    ELSE IF Head(s) = "\"" THEN [ok |-> FALSE, val |-> <<>>]
    ELSE IF Head(s) = "\\" THEN
        IF Len(s) < 2 \/ s[2] \notin {"\"", "\\"} THEN [ok |-> FALSE, val |-> <<>>]
        ELSE LET r == UnescapeJson(Tail(Tail(s)))
             IN  [ok |-> r.ok, val |-> IF r.ok THEN <<s[2]>> \o r.val ELSE <<>>]
    ELSE LET r == UnescapeJson(Tail(s))
         IN  [ok |-> r.ok, val |-> IF r.ok THEN <<Head(s)>> \o r.val ELSE <<>>]

\* A unit variant is written as its name.
StatusToJson(s) ==
    CASE s = "NotStarted" -> "NotStarted"
      [] s = "InProgress" -> "InProgress"
      [] s = "Complete" -> "Complete"
      [] s = "Overdue" -> "Overdue"

\* std::time::Duration is written as the struct {secs, nanos}.
DurationToJson(d) == [secs |-> d.secs, nanos |-> d.nanos]

\* Duration::new carries whole seconds out of nanos.
DurationFromJson(j) ==
    [secs |-> j.secs + (j.nanos \div NanosPerSec), nanos |-> j.nanos % NanosPerSec]

\* chrono writes the instant as one RFC 3339 string.
CreatedToJson(c) == <<"rfc3339", c>>

CreatedFromJson(j) == j[2]

TaskToJson(t) ==
    [created |-> CreatedToJson(t.created),
     duration |-> DurationToJson(t.duration),
     title |-> EscapeJson(t.title),
     description |-> EscapeJson(t.description),
     status |-> StatusToJson(t.status)]

TaskJsonOk(j) ==
    /\ j.created[1] = "rfc3339"
    /\ j.duration.secs >= 0 /\ j.duration.nanos >= 0
    /\ UnescapeJson(j.title).ok
    /\ UnescapeJson(j.description).ok
    /\ j.status \in Status

TaskFromJson(j) ==
    [created |-> CreatedFromJson(j.created),
     duration |-> DurationFromJson(j.duration),
     title |-> UnescapeJson(j.title).val,
     description |-> UnescapeJson(j.description).val,
     status |-> j.status]

\* serde_json::to_string(&self.tasks)
ToString(ts) == [kind |-> "json", array |-> [i \in 1..Len(ts) |-> TaskToJson(ts[i])]]

\* serde_json::from_str::<Vec<Task>>(&content)
FromStr(content) ==
    IF content.kind = "json" /\ \A i \in 1..Len(content.array) : TaskJsonOk(content.array[i])
    THEN [ok |-> TRUE, val |-> [i \in 1..Len(content.array) |-> TaskFromJson(content.array[i])]]
    ELSE [ok |-> FALSE, val |-> <<>>]

\* std::fs::read_to_string(file): an error for a missing file and for one
\* that cannot be read as UTF-8 text.
ReadToString(f) ==
    IF f.kind \in {"absent", "unreadable"} THEN [ok |-> FALSE] ELSE [ok |-> TRUE]

(***************************************************************************)
(* The files the first start may find.                                     *)
(***************************************************************************)
Hour(n) == [secs |-> n * SecsPerHour, nanos |-> 0]

StoredA ==
    [created |-> <<"rfc3339", 0>>, duration |-> Hour(2),
     title |-> <<"a", "\\", "\"">>, description |-> <<"\\", "\\">>, status |-> "Complete"]

StoredB ==
    [created |-> <<"rfc3339", 0>>, duration |-> Hour(1),
     title |-> <<"b">>, description |-> <<>>, status |-> "Overdue"]

InitialFiles ==
    { [kind |-> "absent", array |-> <<>>],
      [kind |-> "unreadable", array |-> <<>>],
      [kind |-> "garbage", array |-> <<>>],
      [kind |-> "json", array |-> <<[StoredA EXCEPT !.status = "Done"]>>],
      [kind |-> "json", array |-> <<StoredA, StoredB>>] }

(***************************************************************************)
(* usize arithmetic.                                                       *)
(***************************************************************************)
\* a >= b on usize values
UGe(a, b) == IF (a < 0) = (b < 0) THEN a >= b ELSE a < 0

\* a - 1 on a usize overflows exactly at 0
SubOverflows(a) == a = 0

\* Whether the build panics on an arithmetic overflow, given what this
\* process has shown so far.
MayPanicOnOverflow == overflow_checks \in {"unobserved", "on"}
MayWrapOnOverflow == overflow_checks \in {"unobserved", "off"}

Init ==
    /\ pc = "boot"
    /\ file \in InitialFiles
    /\ tasks = <<>>
    /\ exit = FALSE
    /\ state = "Home"
    /\ title_input = <<>>
    /\ date_input = <<>>
    /\ description_input = <<>>
    /\ date_style = "untouched"
    /\ show_description = FALSE
    /\ focus = 0
    /\ table_state = <<>>
    /\ overflow_checks = "unobserved"
    /\ outcome = "running"
    /\ writes = 0
    /\ runs = 0
    /\ events = 0
    /\ clock = 1
    /\ last_event = [ev |-> "none", view |-> "Home"]

(***************************************************************************)
(* App::new, followed by the entry of App::run.  A later start of the      *)
(* program finds the file the earlier process left.                        *)
(***************************************************************************)
\* A load for which a file that cannot be read is an error too.
LoadTasksReadErrorFatal(f) ==
    IF ReadToString(f).ok THEN FromStr(f) ELSE [ok |-> FALSE, val |-> <<>>]

\* A load that takes an unparsable file for an empty store.
LoadTasksDefaultOnCorrupt(f) ==
    IF ReadToString(f).ok /\ FromStr(f).ok THEN FromStr(f) ELSE [ok |-> TRUE, val |-> <<>>]

\* The tasks App::new computes; ok is FALSE where the unwrap panics.
LoadTasks(f) ==
    IF ReadToString(f).ok THEN FromStr(f) ELSE [ok |-> TRUE, val |-> <<>>]

AppNew ==
    /\ pc \in {"boot", "terminated"}
    /\ runs < MaxRuns
    /\ runs' = runs + 1
    /\ writes' = 0
    /\ tasks' = LoadTasks(file).val
    /\ exit' = FALSE
    /\ state' = "Home"
    /\ title_input' = <<>>
    /\ date_input' = <<>>
    /\ description_input' = <<>>
    /\ date_style' = "untouched"
    /\ show_description' = FALSE
    /\ focus' = 0
    /\ table_state' = <<>>
    /\ overflow_checks' = "unobserved"
    /\ last_event' = [ev |-> "start", view |-> "Home"]
    /\ IF LoadTasks(file).ok
       THEN pc' = "draw" /\ outcome' = "running"
       ELSE pc' = "aborted" /\ outcome' = "panic"
    /\ UNCHANGED <<file, events, clock>>

(***************************************************************************)
(* Drop for App: runs when main returns and when a panic unwinds main.     *)
(***************************************************************************)
\* A panic that ends the process at once, with nothing dropped.
PanicsAborting == pc' = "terminated" /\ outcome' = "panic"

\* A panic inside App::run: it unwinds main, whose `app` is then dropped.
Panics == pc' = "stopping" /\ outcome' = "panic"

Drop ==
    /\ pc = "stopping"
    /\ file' = ToString(tasks)
    /\ writes' = writes + 1
    /\ pc' = "terminated"
    /\ UNCHANGED <<tasks, exit, state, title_input, date_input, description_input,
                   date_style, show_description, focus, table_state, overflow_checks,
                   outcome, runs, events, clock, last_event>>

(***************************************************************************)
(* App::draw / App::render                                                 *)
(***************************************************************************)
\* self.tasks[i] is in bounds
InBounds(i) == 0 <= i /\ i < Len(tasks)

\* What rendering the table does to the selection when the table has room
\* to draw: an index past the rows is pulled back, and no row means none.
ClampSelected(sel, n) ==
    IF n = 0 THEN <<>>
    ELSE IF sel # <<>> /\ UGe(sel[1], n) THEN <<n - 1>>
    ELSE sel

\* The selection after render_stateful_widget; the table returns before
\* touching it when its inner area is empty.
RenderedSelection(area_empty) ==
    IF state = "Home" /\ ~area_empty THEN ClampSelected(table_state, Len(tasks))
    ELSE table_state

\* The overlay reads self.tasks[i] for the selection the table left.
RenderPanics(sel) ==
    state = "Home" /\ show_description /\ sel # <<>> /\ ~InBounds(sel[1])

Draw ==
    /\ pc = "draw"
    /\ \E area_empty \in BOOLEAN :
        /\ table_state' = RenderedSelection(area_empty)
        /\ IF RenderPanics(RenderedSelection(area_empty))
           THEN Panics
           ELSE pc' = "read" /\ outcome' = outcome
    /\ UNCHANGED <<file, tasks, exit, state, title_input, date_input, description_input,
                   date_style, show_description, focus, overflow_checks,
                   writes, runs, events, clock, last_event>>

\* terminal.draw(..)? or event::read()? returns an error: run returns it.
IoError ==
    /\ pc \in {"draw", "read"}
    /\ pc' = "stopping"
    /\ outcome' = "io_error"
    /\ last_event' = [ev |-> "io_error", view |-> state]
    /\ UNCHANGED <<file, tasks, exit, state, title_input, date_input, description_input,
                   date_style, show_description, focus, table_state, overflow_checks,
                   writes, runs, events, clock>>

(***************************************************************************)
(* App::handle_events and App::handle_key_event                            *)
(***************************************************************************)
Key(code) == [code |-> code, ch |-> ""]
CharKey(c) == [code |-> "Char", ch |-> c]

\* The key presses the user produces in each view.
HomeKeys == {CharKey(c) : c \in {"q", "n", " ", "1"}}
              \cup {Key(k) : k \in {"Down", "Up", "Enter", "Esc", "Tab", "Left"}}
NewKeys == {CharKey(c) : c \in Chars}
              \cup {Key(k) : k \in {"Esc", "Backspace", "Tab", "Enter", "Down", "Left"}}
Pressable == IF state = "Home" THEN HomeKeys ELSE NewKeys

\* A match whose quit arm has lost its `if self.state == State::Home`.
ArmQuitAnywhere(key) ==
    IF key.code = "Char" /\ key.ch = "q" THEN "quit"
    ELSE IF key.code = "Char" /\ key.ch = "n" /\ state = "Home" THEN "new"
    ELSE IF key.code = "Esc" /\ state = "New" THEN "esc"
    ELSE IF key.code = "Char" /\ state = "New" THEN "char"
    ELSE IF key.code = "Backspace" /\ state = "New" THEN "backspace"
    ELSE IF key.code = "Tab" /\ state = "New" THEN "tab"
    ELSE IF key.code = "Enter" /\ state = "New" THEN "submit"
    ELSE IF key.code = "Down" /\ state = "Home" THEN "down"
    ELSE IF key.code = "Up" /\ state = "Home" THEN "up"
    ELSE IF key.code = "Enter" /\ state = "Home" THEN "toggle"
    ELSE IF key.code = "Char" /\ key.ch = " " /\ state = "Home" THEN "details"
    ELSE "ignored"

\* A match whose Down arm has lost its `if self.state == State::Home`.
ArmDownAnywhere(key) ==
    IF key.code = "Char" /\ key.ch = "q" /\ state = "Home" THEN "quit"
    ELSE IF key.code = "Char" /\ key.ch = "n" /\ state = "Home" THEN "new"
    ELSE IF key.code = "Esc" /\ state = "New" THEN "esc"
    ELSE IF key.code = "Char" /\ state = "New" THEN "char"
    ELSE IF key.code = "Backspace" /\ state = "New" THEN "backspace"
    ELSE IF key.code = "Tab" /\ state = "New" THEN "tab"
    ELSE IF key.code = "Enter" /\ state = "New" THEN "submit"
    ELSE IF key.code = "Down" THEN "down"
    ELSE IF key.code = "Up" /\ state = "Home" THEN "up"
    ELSE IF key.code = "Enter" /\ state = "Home" THEN "toggle"
    ELSE IF key.code = "Char" /\ key.ch = " " /\ state = "Home" THEN "details"
    ELSE "ignored"

\* The arm of the match on key_event.code that takes the key, in the
\* order the arms are written.
Arm(key) ==
    IF key.code = "Char" /\ key.ch = "q" /\ state = "Home" THEN "quit"
    ELSE IF key.code = "Char" /\ key.ch = "n" /\ state = "Home" THEN "new"
    ELSE IF key.code = "Esc" /\ state = "New" THEN "esc"
    ELSE IF key.code = "Char" /\ state = "New" THEN "char"
    ELSE IF key.code = "Backspace" /\ state = "New" THEN "backspace"
    ELSE IF key.code = "Tab" /\ state = "New" THEN "tab"
    ELSE IF key.code = "Enter" /\ state = "New" THEN "submit"
    ELSE IF key.code = "Down" /\ state = "Home" THEN "down"
    ELSE IF key.code = "Up" /\ state = "Home" THEN "up"
    ELSE IF key.code = "Enter" /\ state = "Home" THEN "toggle"
    ELSE IF key.code = "Char" /\ key.ch = " " /\ state = "Home" THEN "details"
    ELSE "ignored"

\* One event is read and handled: what every handler shares.
Handled(name) ==
    /\ pc = "read"
    /\ events < MaxEvents
    /\ events' = events + 1
    /\ last_event' = [ev |-> name, view |-> state]
    /\ UNCHANGED <<file, writes, runs>>

\* The handler returns and the loop tests self.exit, which is `exits` by then.
Returns(exits) ==
    IF exits THEN pc' = "stopping" /\ outcome' = "quit"
    ELSE pc' = "draw" /\ outcome' = outcome

KeyQuit ==
    /\ \E key \in Pressable : Arm(key) = "quit"
    /\ Handled("q")
    /\ exit' = TRUE
    /\ Returns(TRUE)
    /\ UNCHANGED <<tasks, state, title_input, date_input, description_input, date_style,
                   show_description, focus, table_state, overflow_checks, clock>>

KeyNew ==
    /\ \E key \in Pressable : Arm(key) = "new"
    /\ Handled("n")
    /\ state' = "New"
    /\ Returns(exit)
    /\ UNCHANGED <<tasks, exit, title_input, date_input, description_input, date_style,
                   show_description, focus, table_state, overflow_checks, clock>>

KeyEsc ==
    /\ \E key \in Pressable : Arm(key) = "esc"
    /\ Handled("Esc")
    /\ state' = "Home"
    /\ Returns(exit)
    /\ UNCHANGED <<tasks, exit, title_input, date_input, description_input, date_style,
                   show_description, focus, table_state, overflow_checks, clock>>

\* TextArea::input of a character: it goes in at the cursor, which is at the
\* end of the line since no key moves it.
InsertChar(text, c) == Append(text, c)

\* A Backspace that takes the first character of the line.
DeleteFirstChar(text) == IF text = <<>> THEN <<>> ELSE Tail(text)

\* TextArea::input of Backspace: the character before the cursor goes.
DeleteChar(text) == IF text = <<>> THEN <<>> ELSE SubSeq(text, 1, Len(text) - 1)

\* The longest text the model lets each buffer hold.
Room(f) == IF f = 1 THEN MaxDigits ELSE MaxText

FocusedText == CASE focus = 0 -> title_input [] focus = 1 -> date_input [] focus = 2 -> description_input

\* The three buffers after `edit` is applied to the one in focus.
EditFocused(new) ==
    /\ title_input' = IF focus = 0 THEN new ELSE title_input
    /\ date_input' = IF focus = 1 THEN new ELSE date_input
    /\ description_input' = IF focus = 2 THEN new ELSE description_input

KeyChar ==
    \E key \in Pressable :
        /\ Arm(key) = "char"
        /\ Len(FocusedText) < Room(focus)
        /\ Handled(key.ch)
        /\ EditFocused(InsertChar(FocusedText, key.ch))
        /\ Returns(exit)
        /\ UNCHANGED <<tasks, exit, state, date_style, show_description, focus,
                       table_state, overflow_checks, clock>>

KeyBackspace ==
    /\ \E key \in Pressable : Arm(key) = "backspace"
    /\ Handled("Backspace")
    /\ EditFocused(DeleteChar(FocusedText))
    /\ Returns(exit)
    /\ UNCHANGED <<tasks, exit, state, date_style, show_description, focus,
                   table_state, overflow_checks, clock>>

\* A Tab that moves between two fields only.
NextFocusTwoFields(f) == (f + 1) % 2

NextFocus(f) == (f + 1) % 3

KeyTab ==
    /\ \E key \in Pressable : Arm(key) = "tab"
    /\ Handled("Tab")
    /\ focus' = NextFocus(focus)
    /\ Returns(exit)
    /\ UNCHANGED <<tasks, exit, state, title_input, date_input, description_input,
                   date_style, show_description, table_state, overflow_checks, clock>>

\* A validation that lets an empty line through.
IsNumberOrEmpty(text) == text = <<>> \/ ParseI32(text).ok

\* is_number: whether the duration buffer's line parses as an i32.
IsNumber(text) == ParseI32(text).ok

\* The Task the Compose view's Enter pushes, for a buffer of `hours` hours.
NewTask(hours) ==
    [created |-> clock,
     duration |-> [secs |-> hours * SecsPerHour, nanos |-> 0],
     title |-> title_input,
     description |-> description_input,
     status |-> "NotStarted"]

\* A push that puts the new task first.
PushTaskFront(ts, t) == <<t>> \o ts

\* self.tasks.push(task)
PushTask(ts, t) == Append(ts, t)

\* Enter in the Compose view.  is_number styles the duration field either
\* way; a line it accepts is parsed again as a u64 and unwrapped.
KeySubmit ==
    /\ \E key \in Pressable : Arm(key) = "submit"
    /\ Handled("Enter")
    /\ date_style' = IF IsNumber(date_input) THEN "valid" ELSE "invalid"
    /\ \/ /\ ~IsNumber(date_input)
          /\ Returns(exit)
          /\ UNCHANGED <<tasks, state, clock>>
       \/ /\ IsNumber(date_input)
          /\ ~ParseU64(date_input).ok
          /\ Panics
          /\ UNCHANGED <<tasks, state, clock>>
       \/ /\ IsNumber(date_input)
          /\ ParseU64(date_input).ok
          /\ Len(tasks) < MaxTasks
          /\ tasks' = PushTask(tasks, NewTask(ParseU64(date_input).val))
          /\ state' = "Home"
          /\ clock' = clock + 1
          /\ Returns(exit)
    /\ UNCHANGED <<exit, title_input, date_input, description_input, show_description,
                   focus, table_state, overflow_checks>>

\* The index App::next selects; `last` is self.tasks.len() - 1 as computed.
NextIndex(sel, last) ==
    IF sel = <<>> THEN 0
    ELSE IF UGe(sel[1], last) THEN 0
    ELSE sel[1] + 1

\* A previous that stops at the first row instead of wrapping.
PreviousIndexSaturating(sel, last) ==
    IF sel = <<>> THEN 0
    ELSE IF sel[1] = 0 THEN 0
    ELSE sel[1] - 1

\* The index App::previous selects; `last` is self.tasks.len() - 1 as computed.
PreviousIndex(sel, last) ==
    IF sel = <<>> THEN 0
    ELSE IF sel[1] = 0 THEN last
    ELSE sel[1] - 1

\* The model follows an index outside the store only this far.
Capped(i) == InBounds(i) \/ (-MaxSelected <= i /\ i <= MaxSelected)

\* App::next evaluates len - 1 whenever there is a selection.
NextOverflows == table_state # <<>> /\ SubOverflows(Len(tasks))

\* App::previous evaluates len - 1 only at index 0.
PreviousOverflows == table_state = <<0>> /\ SubOverflows(Len(tasks))

\* The selection moves, or the subtraction overflows and the build decides.
Select(overflows, index) ==
    \/ /\ ~overflows
       /\ Capped(index)
       /\ table_state' = <<index>>
       /\ Returns(exit)
       /\ UNCHANGED overflow_checks
    \/ /\ overflows
       /\ MayWrapOnOverflow
       /\ Capped(index)
       /\ overflow_checks' = "off"
       /\ table_state' = <<index>>
       /\ Returns(exit)
    \/ /\ overflows
       /\ MayPanicOnOverflow
       /\ overflow_checks' = "on"
       /\ Panics
       /\ UNCHANGED table_state

KeyDown ==
    /\ \E key \in Pressable : Arm(key) = "down"
    /\ Handled("Down")
    /\ Select(NextOverflows, NextIndex(table_state, Len(tasks) - 1))
    /\ UNCHANGED <<tasks, exit, state, title_input, date_input, description_input,
                   date_style, show_description, focus, clock>>

KeyUp ==
    /\ \E key \in Pressable : Arm(key) = "up"
    /\ Handled("Up")
    /\ Select(PreviousOverflows, PreviousIndex(table_state, Len(tasks) - 1))
    /\ UNCHANGED <<tasks, exit, state, title_input, date_input, description_input,
                   date_style, show_description, focus, clock>>

\* Enter in the List view: selected().unwrap(), then self.tasks[i].
KeyToggle ==
    /\ \E key \in Pressable : Arm(key) = "toggle"
    /\ Handled("Enter")
    /\ \/ /\ table_state = <<>>
          /\ Panics
          /\ UNCHANGED tasks
       \/ /\ table_state # <<>>
          /\ ~InBounds(table_state[1])
          /\ Panics
          /\ UNCHANGED tasks
       \/ /\ table_state # <<>>
          /\ InBounds(table_state[1])
          /\ tasks' = [tasks EXCEPT ![table_state[1] + 1].status = ToggleStatus(@)]
          /\ Returns(exit)
    /\ UNCHANGED <<exit, state, title_input, date_input, description_input, date_style,
                   show_description, focus, table_state, overflow_checks, clock>>

\* A details key that can only switch the overlay on.
ToggleDetailsOnly(shown) == TRUE

\* self.show_description = !self.show_description
ToggleDetails(shown) == ~shown

KeyDetails ==
    /\ \E key \in Pressable : Arm(key) = "details"
    /\ Handled("Space")
    /\ show_description' = ToggleDetails(show_description)
    /\ Returns(exit)
    /\ UNCHANGED <<tasks, exit, state, title_input, date_input, description_input,
                   date_style, focus, table_state, overflow_checks, clock>>

\* A key no arm takes falls to the `_ => {}` arm.
KeyIgnored ==
    /\ \E key \in Pressable : Arm(key) = "ignored"
    /\ Handled("ignored")
    /\ Returns(exit)
    /\ UNCHANGED <<tasks, exit, state, title_input, date_input, description_input,
                   date_style, show_description, focus, table_state, overflow_checks, clock>>

\* A key release or repeat, or an event that is no key event (a resize).
OtherEvent ==
    /\ Handled("other")
    /\ Returns(exit)
    /\ UNCHANGED <<tasks, exit, state, title_input, date_input, description_input,
                   date_style, show_description, focus, table_state, overflow_checks, clock>>

Next ==
    \/ AppNew
    \/ Draw
    \/ IoError
    \/ KeyQuit
    \/ KeyNew
    \/ KeyEsc
    \/ KeyChar
    \/ KeyBackspace
    \/ KeyTab
    \/ KeySubmit
    \/ KeyDown
    \/ KeyUp
    \/ KeyToggle
    \/ KeyDetails
    \/ KeyIgnored
    \/ OtherEvent
    \/ Drop

Spec == Init /\ [][Next]_vars

(***************************************************************************)
(* Properties.                                                             *)
(***************************************************************************)
\* The step reads one event and handles it as `name` in view `view`.
HandlesKey(name, view) ==
    /\ pc = "read"
    /\ events' = events + 1
    /\ last_event' = [ev |-> name, view |-> view]

\* The state was left by the handler of `name` in view `view`, which returned.
AfterKey(name, view) ==
    /\ last_event = [ev |-> name, view |-> view]
    /\ pc \in {"draw", "read"}

\* The status cycle as the specification words it.
CycleStep(s) ==
    CASE s = "NotStarted" -> "InProgress"
      [] s = "InProgress" -> "Complete"
      [] s = "Complete" -> "Overdue"
      [] s = "Overdue" -> "NotStarted"

\* An optional sign followed by at least one decimal digit.
LooksInteger(s) ==
    LET body == IF s # <<>> /\ Head(s) \in {"+", "-"} THEN Tail(s) ELSE s
    IN  body # <<>> /\ \A i \in 1..Len(body) : body[i] \in Digits

\* The tasks other than the one at index i (from 0) are the same after the step.
OthersUnchanged(i) ==
    /\ Len(tasks') = Len(tasks)
    /\ \A j \in 1..Len(tasks) : j # i + 1 => tasks'[j] = tasks[j]

\* C1: Enter in the List view with a task selected moves that task's status
\* one step along NotStarted -> InProgress -> Complete -> Overdue ->
\* NotStarted and changes nothing else of the store; three more toggles of
\* the new status give the status it had before.
C1_ToggleAdvancesCycle ==
    [][(HandlesKey("Enter", "Home") /\ table_state # <<>> /\ InBounds(table_state[1])) =>
        LET i == table_state[1] + 1
        IN  /\ pc' = "draw"
            /\ tasks'[i] = [tasks[i] EXCEPT !.status = CycleStep(tasks[i].status)]
            /\ OthersUnchanged(table_state[1])
            /\ ToggleStatus(ToggleStatus(ToggleStatus(tasks'[i].status))) = tasks[i].status
      ]_vars

\* C1 witness: the stored task "b", loaded as Overdue, was toggled round to
\* NotStarted by Enter on the second row.
C1_Witness ==
    /\ AfterKey("Enter", "Home")
    /\ table_state = <<1>>
    /\ Len(tasks) = 2
    /\ tasks[2].title = <<"b">>
    /\ tasks[2].status = "NotStarted"

\* C2: with N >= 1 tasks and the selection at a row i of the store, Down
\* selects i + 1, or 0 from the last row, and Up selects i - 1, or N - 1 from
\* row 0.
C2_SelectionWraps ==
    [][(table_state # <<>> /\ InBounds(table_state[1])) =>
        LET i == table_state[1]
            n == Len(tasks)
        IN  /\ HandlesKey("Down", "Home") =>
                (pc' = "draw" /\ table_state' = <<IF i = n - 1 THEN 0 ELSE i + 1>>)
            /\ HandlesKey("Up", "Home") =>
                (pc' = "draw" /\ table_state' = <<IF i = 0 THEN n - 1 ELSE i - 1>>)
      ]_vars

\* C2 witness: two keys into a run over the two stored tasks, Up has wrapped
\* the selection from row 0 to the last row.
C2_Witness ==
    /\ AfterKey("Up", "Home")
    /\ runs = 1
    /\ events = 2
    /\ Len(tasks) = 2
    /\ table_state = <<1>>

\* C3 (as claimed): Enter in the Compose view with an integer in the duration
\* buffer appends one NotStarted task of that many hours, with the title and
\* description of the buffers, keeps the earlier tasks and shows the List view.
C3_SubmitIntegerAppends ==
    [][(HandlesKey("Enter", "New") /\ LooksInteger(date_input)) =>
        /\ pc' = "draw"
        /\ state' = "Home"
        /\ Len(tasks') = Len(tasks) + 1
        /\ SubSeq(tasks', 1, Len(tasks)) = tasks
        /\ tasks'[Len(tasks')].status = "NotStarted"
        /\ tasks'[Len(tasks')].title = title_input
        /\ tasks'[Len(tasks')].description = description_input
        /\ tasks'[Len(tasks')].duration =
               [secs |-> ParseI32(date_input).val * SecsPerHour, nanos |-> 0]
      ]_vars

\* C4: Enter in the Compose view with a duration buffer that is no integer
\* leaves the store and the three buffers as they were, stays in the Compose
\* view and marks the duration field invalid.
C4_SubmitNonIntegerRejected ==
    [][(HandlesKey("Enter", "New") /\ ~LooksInteger(date_input)) =>
        /\ pc' = "draw"
        /\ state' = "New"
        /\ tasks' = tasks
        /\ date_style' = "invalid"
        /\ UNCHANGED <<title_input, date_input, description_input>>
      ]_vars

\* C4 witness: a form with a title and a non-numeric duration was submitted
\* and is still shown, flagged invalid.
C4_Witness ==
    /\ AfterKey("Enter", "New")
    /\ state = "New"
    /\ date_style = "invalid"
    /\ title_input # <<>>
    /\ date_input = <<"q">>

\* C5 (as claimed): whatever the duration buffer holds, Enter in the Compose
\* view does not end the process with a panic.
C5_SubmitNeverCrashes ==
    ~(last_event = [ev |-> "Enter", view |-> "New"] /\ outcome = "panic")

\* C6: a start of the program after a shutdown that saved the store loads
\* the same tasks, in the same order, with every field as it was in memory
\* when the store was saved.
C6_SaveLoadRoundTrip ==
    [][(pc = "terminated" /\ pc' # "terminated") => (pc' = "draw" /\ tasks' = tasks)]_vars

\* C6 witness: the second run starts with three tasks: the stored ones, with
\* a quote in a title and a status toggled in the first run, and one
\* committed in the first run.
C6_Witness ==
    /\ runs = 2
    /\ last_event.ev = "start"
    /\ pc = "draw"
    /\ Len(tasks) = 3
    /\ tasks[1].title = <<"a", "\"">>
    /\ tasks[2].status = "NotStarted"
    /\ tasks[3].created > 0

\* C7: a start that finds the file absent or unreadable gives an empty store
\* and a running loop in the List view.
C7_MissingFileStartsEmpty ==
    (last_event.ev = "start" /\ file.kind \in {"absent", "unreadable"}) =>
        /\ pc \in {"draw", "read"}
        /\ outcome = "running"
        /\ tasks = <<>>
        /\ state = "Home"

\* C7 witness: the loop waits for its first event over an empty store, the
\* file being unreadable.
C7_Witness ==
    /\ last_event.ev = "start"
    /\ file.kind = "unreadable"
    /\ pc = "read"
    /\ tasks = <<>>

\* The file is there and readable, and its content does not parse.
Corrupt(f) == f.kind \notin {"absent", "unreadable"} /\ ~FromStr(f).ok

\* C8: with a corrupt file the start is fatal: the loop is not entered, no
\* event is handled, nothing is written, and the file stays as it was.
C8_CorruptFileIsFatal ==
    [][Corrupt(file) =>
        /\ pc' = "aborted"
        /\ file' = file
        /\ events' = events
        /\ writes' = 0
      ]_vars

\* C8 witness: the process has ended at startup on a file that is JSON of
\* the wrong shape, which is still on disk.
C8_Witness ==
    /\ pc = "aborted"
    /\ outcome = "panic"
    /\ file.kind = "json"
    /\ Len(file.array) = 1
    /\ writes = 0

\* C9: a process that got past startup writes the file exactly once: not
\* while the loop runs, and once the loop has ended, however it ended, the
\* next thing that happens is the write of the whole in-memory store.
C9_WrittenOnceAtShutdown ==
    [][/\ pc' \in {"draw", "read", "stopping"} => writes' = 0
       /\ pc \in {"draw", "read"} => file' = file
       /\ pc = "stopping" =>
            /\ pc' = "terminated"
            /\ writes' = 1
            /\ tasks' = tasks
            /\ FromStr(file').ok
            /\ FromStr(file').val = tasks
       /\ pc' = "terminated" => writes' = 1
      ]_vars

\* C9 witness: a panic in a key handler ended the loop, and the store, with
\* a task added in this run, has been written once.
C9_Witness ==
    /\ pc = "terminated"
    /\ outcome = "panic"
    /\ writes = 1
    /\ Len(tasks) = 3
    /\ FromStr(file).val = tasks

\* C10 (as claimed): Enter in the List view with no selection changes
\* nothing and does not crash.
C10_ToggleWithoutSelectionNoOp ==
    [][(HandlesKey("Enter", "Home") /\ table_state = <<>>) =>
        /\ pc' = "draw"
        /\ UNCHANGED <<tasks, table_state, state, show_description>>
      ]_vars

\* C11 (as claimed): the selection is none or a row of the store; with an
\* empty store it stays none.
C11_SelectionInRange ==
    table_state = <<>> \/ InBounds(table_state[1])

\* C12 (as claimed): with an empty store and the overlay flag on, rendering
\* the List view does not panic on a task that is not there.
C12_OverlayOnEmptyStoreSafe ==
    [][(pc = "draw" /\ state = "Home" /\ show_description /\ tasks = <<>>) =>
        outcome' # "panic"]_vars

\* C13: Space in the List view flips the overlay flag and leaves the store,
\* the selection, the view, the buffers, the focus and the exit flag as they
\* were; flipping the new flag once more gives the old one.
C13_SpaceFlipsOnlyOverlay ==
    [][HandlesKey("Space", "Home") =>
        /\ pc' = "draw"
        /\ show_description' = ~show_description
        /\ ToggleDetails(show_description') = show_description
        /\ UNCHANGED <<tasks, table_state, state, title_input, date_input,
                       description_input, date_style, focus, exit>>
      ]_vars

\* C13 witness: Space has switched the overlay off again, over a selected
\* row of the two stored tasks and with text left in the title buffer.
C13_Witness ==
    /\ AfterKey("Space", "Home")
    /\ ~show_description
    /\ Len(tasks) = 2
    /\ table_state = <<1>>
    /\ title_input # <<>>

\* C14 (as claimed): when 'n' opens the Compose view the three buffers are
\* empty and the focus is on the title.
C14_NewSessionStartsEmpty ==
    [][HandlesKey("n", "Home") =>
        /\ state' = "New"
        /\ title_input' = <<>>
        /\ date_input' = <<>>
        /\ description_input' = <<>>
        /\ focus' = 0
      ]_vars

\* The text of the buffer that had the focus before the step, after it.
FocusedTextAfter ==
    CASE focus = 0 -> title_input' [] focus = 1 -> date_input' [] focus = 2 -> description_input'

\* C15: within a process the exit flag changes only by 'q' in the List
\* view, which sets it; 'q' in the Compose view goes into the focused buffer
\* and leaves the flag.
C15_ExitOnlyByQuitInList ==
    [][(pc \in {"draw", "read", "stopping"}) =>
        /\ (exit' # exit) => (HandlesKey("q", "Home") /\ exit' = TRUE)
        /\ (exit = TRUE) => (exit' = TRUE)
        /\ HandlesKey("q", "Home") =>
            (exit' = TRUE /\ pc' = "stopping" /\ outcome' = "quit")
        /\ HandlesKey("q", "New") =>
            (exit' = exit /\ pc' = "draw" /\ FocusedTextAfter = Append(FocusedText, "q"))
      ]_vars

\* C15 witness: 'q' typed in the Compose view is in the title buffer and the
\* loop goes on.
C15_Witness ==
    /\ AfterKey("q", "New")
    /\ state = "New"
    /\ title_input = <<"q">>
    /\ ~exit

\* C16 (as claimed): Enter in the Compose view with an empty title buffer
\* adds no task.
C16_EmptyTitleNotCommitted ==
    [][(HandlesKey("Enter", "New") /\ title_input = <<>>) => tasks' = tasks]_vars

\* The task is the same but for its status.
SameButStatus(t, u) == [t EXCEPT !.status = u.status] = u

\* C17: within a process the store only grows at its end: every task keeps
\* its row, created, duration, title and description; the length grows, by
\* one, only on an Enter in the Compose view that validated the duration;
\* a status changes only on Enter in the List view, on the selected row.
C17_StoreAppendOnly ==
    [][(pc \in {"draw", "read", "stopping"}) =>
        /\ Len(tasks') >= Len(tasks)
        /\ \A j \in 1..Len(tasks) :
            /\ SameButStatus(tasks[j], tasks'[j])
            /\ (tasks'[j].status # tasks[j].status) =>
                (HandlesKey("Enter", "Home") /\ table_state = <<j - 1>>)
        /\ (Len(tasks') # Len(tasks)) =>
            /\ HandlesKey("Enter", "New")
            /\ IsNumber(date_input)
            /\ Len(tasks') = Len(tasks) + 1
        /\ HandlesKey("Esc", "New") => tasks' = tasks
      ]_vars

\* C17 witness: a task was added to the two stored ones in this run and a
\* stored task's status was then changed by Enter on its row.
C17_Witness ==
    /\ AfterKey("Enter", "Home")
    /\ runs = 1
    /\ Len(tasks) = 3
    /\ tasks[3].created > 0
    /\ tasks[1].status = "Overdue"
    /\ table_state = <<0>>

\* C18: the focus is 0, 1 or 2; Tab in the Compose view makes it
\* (focus + 1) mod 3 and changes nothing else, two more Tabs bring it back;
\* a typed character goes to the title at 0, the duration at 1 and the
\* description at 2.
C18_FocusCycles ==
    [][/\ focus' \in {0, 1, 2}
       /\ HandlesKey("Tab", "New") =>
            /\ pc' = "draw"
            /\ focus' = (focus + 1) % 3
            /\ NextFocus(NextFocus(focus')) = focus
            /\ UNCHANGED <<tasks, exit, state, title_input, date_input, description_input,
                           date_style, show_description, table_state>>
       /\ \A c \in Chars : HandlesKey(c, "New") =>
            /\ focus = 0 => title_input' = Append(title_input, c)
            /\ focus = 1 => date_input' = Append(date_input, c)
            /\ focus = 2 => description_input' = Append(description_input, c)
      ]_vars

\* C18 witness: the third Tab of a session has brought the focus back to the
\* title, with a character in the description typed at focus 2.
C18_Witness ==
    /\ AfterKey("Tab", "New")
    /\ focus = 0
    /\ description_input # <<>>
    /\ title_input = <<>>
    /\ date_input = <<>>

\* The step leaves everything but the three buffers: the focus, the view,
\* the store, the selection, the overlay and exit flags and the field style.
OnlyBuffersMayChange ==
    UNCHANGED <<focus, state, tasks, table_state, show_description, exit, date_style>>

\* The buffers that did not have the focus are the same after the step.
UnfocusedBuffersUnchanged ==
    /\ focus # 0 => title_input' = title_input
    /\ focus # 1 => date_input' = date_input
    /\ focus # 2 => description_input' = description_input

\* C19: a character typed in the Compose view is appended to the buffer in
\* focus and Backspace removes that buffer's last character (nothing from an
\* empty one); the other two buffers, the focus, the view, the store and the
\* selection stay.
C19_EditOnlyFocusedBuffer ==
    [][/\ \A c \in Chars : HandlesKey(c, "New") =>
            /\ pc' = "draw"
            /\ FocusedTextAfter = FocusedText \o <<c>>
            /\ UnfocusedBuffersUnchanged
            /\ OnlyBuffersMayChange
       /\ HandlesKey("Backspace", "New") =>
            /\ pc' = "draw"
            /\ FocusedTextAfter =
                 IF FocusedText = <<>> THEN <<>>
                 ELSE [i \in 1..(Len(FocusedText) - 1) |-> FocusedText[i]]
            /\ UnfocusedBuffersUnchanged
            /\ OnlyBuffersMayChange
      ]_vars

\* C19 witness: five keys into the run (n, Tab, '-', a second character,
\* Backspace) the duration buffer holds its first character only.
C19_Witness ==
    /\ AfterKey("Backspace", "New")
    /\ runs = 1
    /\ events = 5
    /\ focus = 1
    /\ date_input = <<"-">>
    /\ title_input = <<>>

\* The status of every task of the store is the same after the step.
StatusesUnchanged ==
    \A j \in 1..Len(tasks) : j <= Len(tasks') /\ tasks'[j].status = tasks[j].status

\* C20: a key handled in the Compose view leaves the selection, the overlay
\* flag, the exit flag and every status; a key handled in the List view
\* leaves the three buffers and the focus; an event that is no key press
\* leaves every field of the App.
C20_KeysActOnActiveView ==
    [][(pc = "read" /\ events' = events + 1) =>
        /\ state = "New" =>
            (UNCHANGED <<table_state, show_description, exit>> /\ StatusesUnchanged)
        /\ state = "Home" =>
            UNCHANGED <<title_input, date_input, description_input, focus>>
        /\ last_event'.ev = "other" =>
            /\ pc' = "draw"
            /\ UNCHANGED <<tasks, exit, state, title_input, date_input, description_input,
                           date_style, show_description, focus, table_state>>
      ]_vars

\* C20 witness: a key that the List view acts on (Down) was pressed in the
\* Compose view, over a selected row with the overlay on: both are as they were.
C20_Witness ==
    /\ AfterKey("ignored", "New")
    /\ state = "New"
    /\ table_state = <<1>>
    /\ show_description
    /\ Len(tasks) = 2

====
